---- MODULE Spec2Model ----
(***************************************************************************)
(* Daily Notes Month Archiver (src/src/main.ts).                           *)
(*                                                                         *)
(* Strings the code inspects character by character (file names, the date  *)
(* format, the text typed in the settings tab, formatted dates) are        *)
(* sequences of one-character strings.  A vault path is the sequence of    *)
(* its segments.  A date is a record [y, m, d].                            *)
(***************************************************************************)
EXTENDS Integers, Sequences, FiniteSets, TLC

VARIABLES today, running, layoutPending, settings, data, vault, ev, autoLog

vars == <<today, running, layoutPending, settings, data, vault, ev, autoLog>>

----------------------------------------------------------------------------
(* Bounds of the model.                                                    *)

\* largest number of file children the user keeps in the notes folder
MaxFiles == 2
\* number of calendar days the clock may advance past StartDay
MaxDayAdvance == 1
\* largest index of a host call (createFolder / renameFile) that an
\* injected host failure may hit
MaxFaultAt == 1

----------------------------------------------------------------------------
(* Text helpers.                                                           *)

DigitChars == <<"0", "1", "2", "3", "4", "5", "6", "7", "8", "9">>

IsDigit(c) == \E i \in 1..10 : DigitChars[i] = c

DigitVal(c) == (CHOOSE i \in 1..10 : DigitChars[i] = c) - 1

\* value of a sequence of digit characters
RECURSIVE ToInt(_)
ToInt(s) == IF s = <<>> THEN 0 ELSE 10 * ToInt(SubSeq(s, 1, Len(s) - 1)) + DigitVal(s[Len(s)])

AllDigits(s) == \A i \in 1..Len(s) : IsDigit(s[i])

Pad2(n) == <<DigitChars[((n \div 10) % 10) + 1], DigitChars[(n % 10) + 1]>>

Pad4(n) == Pad2(n \div 100) \o Pad2(n % 100)

IsSpace(c) == c = " "

\* String.prototype.trim
RECURSIVE Trim(_)
Trim(s) ==
    IF s = <<>> THEN s
    ELSE IF IsSpace(s[1]) THEN Trim(Tail(s))
    ELSE IF IsSpace(s[Len(s)]) THEN Trim(SubSeq(s, 1, Len(s) - 1))
    ELSE s

\* String.prototype.endsWith
EndsWith(s, suffix) ==
    /\ Len(s) >= Len(suffix)
    /\ SubSeq(s, Len(s) - Len(suffix) + 1, Len(s)) = suffix

\* length of the leading run of digits of s
RECURSIVE DigitPrefixLen(_)
DigitPrefixLen(s) ==
    IF s # <<>> /\ IsDigit(s[1]) THEN 1 + DigitPrefixLen(Tail(s)) ELSE 0

\* parseInt(value): leading blanks skipped, optional sign, then the longest
\* run of decimal digits; NaN when there is no digit.
NaN == [nan |-> TRUE, num |-> 0]

RECURSIVE SkipSpaces(_)
SkipSpaces(s) == IF s # <<>> /\ IsSpace(s[1]) THEN SkipSpaces(Tail(s)) ELSE s

ParseInt(value) ==
    LET t    == SkipSpaces(value)
        neg  == t # <<>> /\ t[1] = "-"
        body == IF t # <<>> /\ (t[1] = "-" \/ t[1] = "+") THEN Tail(t) ELSE t
        k    == DigitPrefixLen(body)
        mag  == ToInt(SubSeq(body, 1, k))
    IN  IF k = 0 THEN NaN
        ELSE [nan |-> FALSE, num |-> IF neg THEN 0 - mag ELSE mag]

----------------------------------------------------------------------------
(* Calendar (moment's date arithmetic on whole days).                      *)

IsLeap(y) == (y % 4 = 0 /\ y % 100 # 0) \/ y % 400 = 0

DaysInMonth(y, m) ==
    IF m = 2 THEN (IF IsLeap(y) THEN 29 ELSE 28)
    ELSE IF m \in {4, 6, 9, 11} THEN 30 ELSE 31

RECURSIVE DaysBeforeMonth(_, _)
DaysBeforeMonth(y, m) ==
    IF m = 1 THEN 0 ELSE DaysBeforeMonth(y, m - 1) + DaysInMonth(y, m - 1)

\* number of the day, counted from 0001-01-01 = 1
Ord(dt) ==
    LET p == dt.y - 1
    IN  365 * p + (p \div 4) - (p \div 100) + (p \div 400)
          + DaysBeforeMonth(dt.y, dt.m) + dt.d

NextDate(dt) ==
    IF dt.d < DaysInMonth(dt.y, dt.m) THEN [dt EXCEPT !.d = dt.d + 1]
    ELSE IF dt.m < 12 THEN [y |-> dt.y, m |-> dt.m + 1, d |-> 1]
    ELSE [y |-> dt.y + 1, m |-> 1, d |-> 1]

\* moment().format("YYYY-MM-DD")
FormatISO(dt) == Pad4(dt.y) \o <<"-">> \o Pad2(dt.m) \o <<"-">> \o Pad2(dt.d)

\* parsed.format("MM-YY")
FormatMonthYear(dt) == Pad2(dt.m) \o <<"-">> \o Pad2(dt.y % 100)

----------------------------------------------------------------------------
(* moment(input, format, true): strict parsing.  The formats of this model *)
(* are built from the tokens YYYY, YY, MM, DD and literal characters, and  *)
(* carry a year, a month and a day.                                         *)

StartsWith(s, p) == Len(s) >= Len(p) /\ SubSeq(s, 1, Len(p)) = p

Drop(s, k) == SubSeq(s, k + 1, Len(s))

\* the format split into tokens, longest token first
RECURSIVE Tokens(_)
Tokens(fmt) ==
    IF fmt = <<>> THEN <<>>
    ELSE IF StartsWith(fmt, <<"Y", "Y", "Y", "Y">>)
         THEN <<[kind |-> "YYYY", width |-> 4, ch |-> "Y"]>> \o Tokens(Drop(fmt, 4))
    ELSE IF StartsWith(fmt, <<"Y", "Y">>)
         THEN <<[kind |-> "YY", width |-> 2, ch |-> "Y"]>> \o Tokens(Drop(fmt, 2))
    ELSE IF StartsWith(fmt, <<"M", "M">>)
         THEN <<[kind |-> "MM", width |-> 2, ch |-> "M"]>> \o Tokens(Drop(fmt, 2))
    ELSE IF StartsWith(fmt, <<"D", "D">>)
         THEN <<[kind |-> "DD", width |-> 2, ch |-> "D"]>> \o Tokens(Drop(fmt, 2))
    ELSE <<[kind |-> "lit", width |-> 1, ch |-> fmt[1]]>> \o Tokens(Drop(fmt, 1))

\* moment's parseTwoDigitYear
TwoDigitYear(n) == n + (IF n > 68 THEN 1900 ELSE 2000)

Invalid == [valid |-> FALSE, y |-> 0, m |-> 0, d |-> 0]

\* a parser that is not strict: input left over after the last token is
\* ignored
RECURSIVE ParseTokensLoose(_, _, _)
ParseTokensLoose(toks, s, acc) ==
    IF toks = <<>> THEN acc
    ELSE LET t == Head(toks)
         IN  IF Len(s) < t.width THEN Invalid
             ELSE IF t.kind = "lit"
                  THEN (IF s[1] = t.ch THEN ParseTokensLoose(Tail(toks), Drop(s, 1), acc)
                        ELSE Invalid)
             ELSE LET digits == SubSeq(s, 1, t.width)
                      n      == ToInt(digits)
                  IN  IF ~AllDigits(digits) THEN Invalid
                      ELSE ParseTokensLoose(Tail(toks), Drop(s, t.width),
                              CASE t.kind = "YYYY" -> [acc EXCEPT !.y = n]
                                [] t.kind = "YY"   -> [acc EXCEPT !.y = TwoDigitYear(n)]
                                [] t.kind = "MM"   -> [acc EXCEPT !.m = n]
                                [] t.kind = "DD"   -> [acc EXCEPT !.d = n])

\* consume the tokens from the front of s; every numeric token takes exactly
\* its width in digits, every literal must be matched exactly, and no input
\* may be left over
RECURSIVE ParseTokens(_, _, _)
ParseTokens(toks, s, acc) ==
    IF toks = <<>> THEN (IF s = <<>> THEN acc ELSE Invalid)
    ELSE LET t == Head(toks)
         IN  IF Len(s) < t.width THEN Invalid
             ELSE IF t.kind = "lit"
                  THEN (IF s[1] = t.ch THEN ParseTokens(Tail(toks), Drop(s, 1), acc)
                        ELSE Invalid)
             ELSE LET digits == SubSeq(s, 1, t.width)
                      n      == ToInt(digits)
                  IN  IF ~AllDigits(digits) THEN Invalid
                      ELSE ParseTokens(Tail(toks), Drop(s, t.width),
                              CASE t.kind = "YYYY" -> [acc EXCEPT !.y = n]
                                [] t.kind = "YY"   -> [acc EXCEPT !.y = TwoDigitYear(n)]
                                [] t.kind = "MM"   -> [acc EXCEPT !.m = n]
                                [] t.kind = "DD"   -> [acc EXCEPT !.d = n])

\* the parsed fields must name a day of the calendar (parsed.isValid())
ValidDate(p) ==
    /\ p.m \in 1..12
    /\ p.d >= 1
    /\ p.d <= DaysInMonth(p.y, p.m)

StrictParse(input, fmt) ==
    LET p == ParseTokens(Tokens(fmt), input, [valid |-> TRUE, y |-> 0, m |-> 0, d |-> 0])
    IN  IF p.valid /\ ValidDate(p) THEN p ELSE Invalid

\* TFile.basename: the name without its last extension
RECURSIVE LastDot(_)
LastDot(s) ==
    IF s = <<>> THEN 0
    ELSE IF s[Len(s)] = "." THEN Len(s)
    ELSE LastDot(SubSeq(s, 1, Len(s) - 1))

Basename(name) ==
    IF LastDot(name) <= 1 THEN name ELSE SubSeq(name, 1, LastDot(name) - 1)

MdSuffix == <<".", "m", "d">>

\* no test of the extension
IsMarkdownAny(name) == TRUE

\* file.name.endsWith(".md")
IsMarkdown(name) == EndsWith(name, MdSuffix)

\* a threshold one day too early: subtract(minAgeDays, "days")
ThresholdOrdOffByOne(day, minAgeDays) == Ord(day) - minAgeDays

\* moment().startOf("day").subtract(minAgeDays - 1, "days"), as a day number
ThresholdOrd(day, minAgeDays) == Ord(day) - (minAgeDays - 1)

\* parsed.isBefore(thresholdDate)
IsBefore(parsed, thresholdOrd) == Ord(parsed) < thresholdOrd

\* the three tests of the loop body (lines 102-111 and 130-139)
Qualifies(name, fmt, day, minAgeDays) ==
    /\ IsMarkdown(name)
    /\ StrictParse(Basename(name), fmt).valid
    /\ IsBefore(StrictParse(Basename(name), fmt), ThresholdOrd(day, minAgeDays))

----------------------------------------------------------------------------
(* Settings (interface ArchiverSettings, DEFAULT_SETTINGS).                *)

Agenda == <<"A", "g", "e", "n", "d", "a">>

FormatDMY == <<"D", "D", "-", "M", "M", "-", "Y", "Y">>

FormatISODate == <<"Y", "Y", "Y", "Y", "-", "M", "M", "-", "D", "D">>

\* lastRunDate: null
NoDate == <<>>

SettingKeys ==
    {"dailyNotesFolder", "dateFormat", "minAgeDays", "autoRunOnStartup", "lastRunDate"}

DEFAULT_SETTINGS ==
    [dailyNotesFolder |-> Agenda,
     dateFormat       |-> FormatDMY,
     minAgeDays       |-> 1,
     autoRunOnStartup |-> TRUE,
     lastRunDate      |-> NoDate]

\* The persisted data.json: the keys it carries (has) and their values.
\* loadData() of a missing file carries no key.
NoData == [has |-> {}, val |-> DEFAULT_SETTINGS]

\* Object.assign({}, DEFAULT_SETTINGS, loaded): no validation of the values
LoadedSettings(d) ==
    [k \in SettingKeys |-> IF k \in d.has THEN d.val[k] ELSE DEFAULT_SETTINGS[k]]

\* saveData(this.settings)
SavedData(st) == [has |-> SettingKeys, val |-> st]

----------------------------------------------------------------------------
(* The vault.  folders: the paths of the folders.  children: the names of  *)
(* the file children of the folder Agenda, in the order of its children    *)
(* array (the only array the code enumerates).  others: the paths of the   *)
(* files anywhere else.                                                     *)

RootFile == <<"T", "o", "d", "o", ".", "m", "d">>

Range(seq) == {seq[i] : i \in 1..Len(seq)}

FilePaths(v) == v.others \cup {<<Agenda, n>> : n \in Range(v.children)}

\* vault.getAbstractFileByPath(path)
GetAbstractFileByPath(v, path) ==
    IF path \in v.folders THEN "folder"
    ELSE IF path \in FilePaths(v) THEN "file"
    ELSE "null"

\* folder.children.filter(f => f instanceof TFile && ...)
FileChildren(v, folderPath) ==
    IF folderPath = <<Agenda>> THEN v.children ELSE <<>>

RemoveName(seq, n) == SelectSeq(seq, LAMBDA x : x # n)

----------------------------------------------------------------------------
(* archiveNotes (lines 75-158).  faultAt = k > 0 makes the k-th call of    *)
(* createFolder / renameFile of the run throw (a host I/O failure);        *)
(* faultAt = 0 injects none.                                                *)

\* folder instanceof TFolder
FolderFound(v, st) == GetAbstractFileByPath(v, <<st.dailyNotesFolder>>) = "folder"

ParsedOf(name, st) == StrictParse(Basename(name), st.dateFormat)

\* lines 101-114: the Set of month folders, in insertion order
RECURSIVE MonthFolders(_, _, _, _)
MonthFolders(files, st, day, acc) ==
    IF files = <<>> THEN acc
    ELSE LET name == Head(files)
             my   == FormatMonthYear(ParsedOf(name, st))
         IN  IF Qualifies(name, st.dateFormat, day, st.minAgeDays)
                  /\ my \notin Range(acc)
             THEN MonthFolders(Tail(files), st, day, Append(acc, my))
             ELSE MonthFolders(Tail(files), st, day, acc)

\* lines 119-125: create the month folders that do not exist
RECURSIVE CreateFolders(_, _, _, _, _)
CreateFolders(months, st, v, calls, faultAt) ==
    IF months = <<>> THEN [vault |-> v, calls |-> calls, threw |-> FALSE, injected |-> FALSE]
    ELSE LET path == <<st.dailyNotesFolder, Head(months)>>
         IN  IF GetAbstractFileByPath(v, path) # "null"
             THEN CreateFolders(Tail(months), st, v, calls, faultAt)
             ELSE IF calls + 1 = faultAt
             THEN [vault |-> v, calls |-> calls + 1, threw |-> TRUE, injected |-> TRUE]
             ELSE CreateFolders(Tail(months), st,
                                [v EXCEPT !.folders = @ \cup {path}], calls + 1, faultAt)

\* fileManager.renameFile(file, newPath): the host refuses a destination
\* that exists ("Destination file already exists!")
RenameThrows(v, newPath) == GetAbstractFileByPath(v, newPath) # "null"

RenameFile(v, name, newPath) ==
    [v EXCEPT !.children = RemoveName(@, name), !.others = @ \cup {newPath}]

\* lines 127-147: move the qualifying files
RECURSIVE MoveFiles(_, _, _, _, _, _, _)
MoveFiles(files, st, day, v, calls, faultAt, movedCount) ==
    IF files = <<>>
    THEN [vault |-> v, threw |-> FALSE, injected |-> FALSE, movedCount |-> movedCount]
    ELSE LET name    == Head(files)
             newPath == <<st.dailyNotesFolder, FormatMonthYear(ParsedOf(name, st)), name>>
         IN  IF ~Qualifies(name, st.dateFormat, day, st.minAgeDays)
             THEN MoveFiles(Tail(files), st, day, v, calls, faultAt, movedCount)
             ELSE IF calls + 1 = faultAt
             THEN [vault |-> v, threw |-> TRUE, injected |-> TRUE, movedCount |-> movedCount]
             ELSE IF RenameThrows(v, newPath)
             THEN [vault |-> v, threw |-> TRUE, injected |-> FALSE, movedCount |-> movedCount]
             ELSE MoveFiles(Tail(files), st, day, RenameFile(v, name, newPath),
                            calls + 1, faultAt, movedCount + 1)

\* a run that creates the missing folder instead of giving up
ArchiveNotFoundCreates(st, v, showNotice) ==
    [vault |-> [v EXCEPT !.folders = @ \cup {<<st.dailyNotesFolder>>}],
     found |-> FALSE, outcome |-> "returned", count |-> 0, injected |-> FALSE,
     notice |-> "none"]

\* a run that throws when the folder is missing
ArchiveNotFoundThrows(st, v, showNotice) ==
    [vault |-> v, found |-> FALSE, outcome |-> "threw", count |-> 0,
     injected |-> FALSE, notice |-> "none"]

\* lines 81-85: the folder is missing or is not a folder
ArchiveNotFound(st, v, showNotice) ==
    [vault |-> v, found |-> FALSE, outcome |-> "returned", count |-> 0,
     injected |-> FALSE,
     notice |-> IF showNotice THEN "Daily notes folder not found." ELSE "none"]

\* lines 149-155
FinalNotice(showNotice, movedCount) ==
    IF ~showNotice THEN "none"
    ELSE IF movedCount > 0 THEN "Successfully archived" ELSE "No daily notes to archive."

ArchiveNotes(st, v, day, faultAt, showNotice) ==
    IF ~FolderFound(v, st) THEN ArchiveNotFound(st, v, showNotice)
    ELSE LET files   == FileChildren(v, <<st.dailyNotesFolder>>)
             months  == MonthFolders(files, st, day, <<>>)
             created == CreateFolders(months, st, v, 0, faultAt)
             moved   == MoveFiles(files, st, day, created.vault, created.calls, faultAt, 0)
         IN  IF created.threw
             THEN [vault |-> created.vault, found |-> TRUE, outcome |-> "threw", count |-> 0,
                   injected |-> TRUE, notice |-> "none"]
             ELSE IF moved.threw
             THEN [vault |-> moved.vault, found |-> TRUE, outcome |-> "threw",
                   count |-> moved.movedCount, injected |-> moved.injected,
                   notice |-> "none"]
             ELSE [vault |-> moved.vault, found |-> TRUE, outcome |-> "returned",
                   count |-> moved.movedCount, injected |-> FALSE,
                   notice |-> FinalNotice(showNotice, moved.movedCount)]

----------------------------------------------------------------------------
(* Inputs.                                                                  *)

StartDay == [y |-> 2026, m |-> 3, d |-> 1]

NoteFeb28 == <<"2", "8", "-", "0", "2", "-", "2", "6", ".", "m", "d">>

NoteMar01 == <<"0", "1", "-", "0", "3", "-", "2", "6", ".", "m", "d">>

NoteIsoFeb28 == <<"2", "0", "2", "6", "-", "0", "2", "-", "2", "8", ".", "m", "d">>

NoteFeb28Txt == <<"2", "8", "-", "0", "2", "-", "2", "6", ".", "t", "x", "t">>

NoteFeb28Extra == <<"2", "8", "-", "0", "2", "-", "2", "6", "b", ".", "m", "d">>

\* the file names the user gives to the files of the notes folder
NoteNames == {NoteFeb28, NoteMar01, NoteIsoFeb28, NoteFeb28Txt, NoteFeb28Extra}

\* the names of the daily notes among them
DailyNoteNames == {NoteFeb28, NoteMar01}

\* the texts the user types in the settings tab
FolderInputs == {Agenda \o <<" ">>, RootFile}

FormatInputs == {<<" ">> \o FormatDMY, FormatISODate}

MinAgeInputs == {<<"1">>, <<" ", "2", "d">>, <<"0">>, <<"x">>}

\* the data.json files found at the first startup
InitialData ==
    {NoData,
     [has |-> {"minAgeDays"}, val |-> [DEFAULT_SETTINGS EXCEPT !.minAgeDays = 0]],
     [has |-> {"minAgeDays", "autoRunOnStartup"},
      val |-> [DEFAULT_SETTINGS EXCEPT !.minAgeDays = 2, !.autoRunOnStartup = FALSE]]}

----------------------------------------------------------------------------
(* State.                                                                   *)
(*   today          the calendar day of the clock                          *)
(*   running        the plugin is loaded                                    *)
(*   layoutPending  the onLayoutReady callback is registered, not yet run   *)
(*   settings       this.settings (DEFAULT_SETTINGS while not loaded)       *)
(*   data           the persisted data.json                                 *)
(*   vault          the vault                                               *)
(*   ev             the handler that ran last and what it reported          *)
(*   autoLog        history: for every automatic run of today that called  *)
(*                  archiveNotes, its outcome and whether it found the    *)
(*                  folder                                                *)

\* ev.kind: "auto" after runIfNeeded, "command" after the command, "other"
\* after anything else; the other fields are the report of archiveNotes
NoRun == [ran |-> FALSE, found |-> FALSE, outcome |-> "none", count |-> 0,
          injected |-> FALSE, notice |-> "none"]

Event(kind, r) ==
    [kind |-> kind, ran |-> r.ran, found |-> r.found, outcome |-> r.outcome,
     count |-> r.count, injected |-> r.injected, notice |-> r.notice]

RunEvent(kind, res) ==
    [kind |-> kind, ran |-> TRUE, found |-> res.found, outcome |-> res.outcome,
     count |-> res.count, injected |-> res.injected, notice |-> res.notice]

Init ==
    /\ today = StartDay
    /\ running = FALSE
    /\ layoutPending = FALSE
    /\ settings = DEFAULT_SETTINGS
    /\ data \in InitialData
    /\ vault \in {[folders |-> fs, children |-> <<>>, others |-> {<<RootFile>>}] :
                    fs \in {{}, {<<Agenda>>}}}
    /\ ev = Event("other", NoRun)
    /\ autoLog = {}

\* onload (lines 31-48): load the settings, register the startup callback
OnLoad ==
    /\ ~running
    /\ running' = TRUE
    /\ settings' = LoadedSettings(data)
    /\ layoutPending' = LoadedSettings(data).autoRunOnStartup
    /\ ev' = Event("other", NoRun)
    /\ UNCHANGED <<today, data, vault, autoLog>>

\* a gate that never skips
AlreadyRanNever(st, day) == FALSE

\* line 54
AlreadyRanToday(st, day) == st.lastRunDate = FormatISO(day)

\* lastRunDate set in a finally block, whatever the outcome
SettingsAfterAutoRunAlways(st, res, day) == [st EXCEPT !.lastRunDate = FormatISO(day)]

\* lines 59-72: lastRunDate is set when archiveNotes returned, the catch
\* block leaves the settings alone
SettingsAfterAutoRun(st, res, day) ==
    IF res.outcome = "returned" THEN [st EXCEPT !.lastRunDate = FormatISO(day)] ELSE st

\* lines 68-69 save the settings, the catch block does not
DataAfterAutoRun(d, st, res, day) ==
    IF res.outcome = "returned" THEN SavedData(SettingsAfterAutoRun(st, res, day)) ELSE d

\* the onLayoutReady callback: runIfNeeded (lines 50-73)
RunIfNeeded ==
    /\ running
    /\ layoutPending
    /\ layoutPending' = FALSE
    /\ IF AlreadyRanToday(settings, today)
       THEN /\ ev' = Event("auto", NoRun)
            /\ UNCHANGED <<settings, data, vault, autoLog>>
       ELSE \E faultAt \in 0..MaxFaultAt :
              \E res \in {ArchiveNotes(settings, vault, today, faultAt, FALSE)} :
                  /\ vault' = res.vault
                  /\ settings' = SettingsAfterAutoRun(settings, res, today)
                  /\ data' = DataAfterAutoRun(data, settings, res, today)
                  /\ autoLog' = autoLog \cup {[outcome |-> res.outcome, found |-> res.found]}
                  /\ ev' = RunEvent("auto", res)
    /\ UNCHANGED <<today, running>>

\* the command "archive-daily-notes": archiveNotes(true)
ArchiveCommand ==
    /\ running
    /\ \E faultAt \in 0..MaxFaultAt :
         \E res \in {ArchiveNotes(settings, vault, today, faultAt, TRUE)} :
             /\ vault' = res.vault
             /\ ev' = RunEvent("command", res)
    /\ UNCHANGED <<today, running, layoutPending, settings, data, autoLog>>

\* settings tab, "Daily notes folder" (lines 192-195)
SetFolder ==
    /\ running
    /\ \E value \in FolderInputs :
         settings' = [settings EXCEPT !.dailyNotesFolder = Trim(value)]
    /\ data' = SavedData(settings')
    /\ ev' = Event("other", NoRun)
    /\ UNCHANGED <<today, running, layoutPending, vault, autoLog>>

\* settings tab, "Date format" (lines 205-208)
SetDateFormat ==
    /\ running
    /\ \E value \in FormatInputs :
         settings' = [settings EXCEPT !.dateFormat = Trim(value)]
    /\ data' = SavedData(settings')
    /\ ev' = Event("other", NoRun)
    /\ UNCHANGED <<today, running, layoutPending, vault, autoLog>>

\* line 220
MinAgeAccepted(num) == ~num.nan /\ num.num >= 1

\* settings tab, "Minimum age (days)" (lines 218-224): a rejected text
\* changes nothing and saves nothing
SetMinAge ==
    /\ running
    /\ \E value \in MinAgeInputs :
         LET num == ParseInt(value)
         IN  IF MinAgeAccepted(num)
             THEN /\ settings' = [settings EXCEPT !.minAgeDays = num.num]
                  /\ data' = SavedData(settings')
             ELSE UNCHANGED <<settings, data>>
    /\ ev' = Event("other", NoRun)
    /\ UNCHANGED <<today, running, layoutPending, vault, autoLog>>

\* settings tab, "Automatic run on startup" (lines 235-238)
SetAutoRun ==
    /\ running
    /\ \E value \in BOOLEAN :
         settings' = [settings EXCEPT !.autoRunOnStartup = value]
    /\ data' = SavedData(settings')
    /\ ev' = Event("other", NoRun)
    /\ UNCHANGED <<today, running, layoutPending, vault, autoLog>>

\* the host is closed: the plugin object and its callback are gone
Quit ==
    /\ running
    /\ running' = FALSE
    /\ layoutPending' = FALSE
    /\ settings' = DEFAULT_SETTINGS
    /\ ev' = Event("other", NoRun)
    /\ UNCHANGED <<today, data, vault, autoLog>>

\* midnight passes
NextDay ==
    /\ Ord(today) < Ord(StartDay) + MaxDayAdvance
    /\ today' = NextDate(today)
    /\ ev' = Event("other", NoRun)
    /\ autoLog' = {}
    /\ UNCHANGED <<running, layoutPending, settings, data, vault>>

\* the user creates a file in the folder Agenda; the host appends it to the
\* children array
AddNoteFrom(names) ==
    /\ <<Agenda>> \in vault.folders
    /\ Len(vault.children) < MaxFiles
    /\ \E name \in names \ Range(vault.children) :
         vault' = [vault EXCEPT !.children = Append(@, name)]
    /\ ev' = Event("other", NoRun)
    /\ UNCHANGED <<today, running, layoutPending, settings, data, autoLog>>

\* any file of NoteNames
AddNote == AddNoteFrom(NoteNames)

\* a daily note
AddDailyNote == AddNoteFrom(DailyNoteNames)

\* the user creates the folder Agenda
CreateNotesFolder ==
    /\ <<Agenda>> \notin vault.folders
    /\ vault' = [vault EXCEPT !.folders = @ \cup {<<Agenda>>}]
    /\ ev' = Event("other", NoRun)
    /\ UNCHANGED <<today, running, layoutPending, settings, data, autoLog>>

\* The plugin over its whole life: startups, automatic runs, the command,
\* the settings tab, the clock, and a user who writes daily notes.
Next ==
    \/ OnLoad
    \/ RunIfNeeded
    \/ ArchiveCommand
    \/ SetFolder
    \/ SetDateFormat
    \/ SetMinAge
    \/ SetAutoRun
    \/ Quit
    \/ NextDay
    \/ AddDailyNote
    \/ CreateNotesFolder

Spec == Init /\ [][Next]_vars

\* One session of the loaded plugin: the command, the settings tab, the
\* clock, and a user who puts files of any name in the folder.
InitArchive ==
    /\ today = StartDay
    /\ running = TRUE
    /\ layoutPending = FALSE
    /\ data = NoData
    /\ settings = LoadedSettings(data)
    /\ vault \in {[folders |-> fs, children |-> <<>>, others |-> {<<RootFile>>}] :
                    fs \in {{}, {<<Agenda>>}}}
    /\ ev = Event("other", NoRun)
    /\ autoLog = {}

NextArchive ==
    \/ ArchiveCommand
    \/ SetFolder
    \/ SetDateFormat
    \/ SetMinAge
    \/ NextDay
    \/ AddNote
    \/ CreateNotesFolder

SpecArchive == InitArchive /\ [][NextArchive]_vars

TypeOK ==
    /\ running \in BOOLEAN
    /\ layoutPending \in BOOLEAN
    /\ settings.autoRunOnStartup \in BOOLEAN
    /\ settings.minAgeDays \in Int
    /\ Len(vault.children) <= MaxFiles

----------------------------------------------------------------------------
(* Properties.  A step with ev'.ran is a run of archiveNotes; the unprimed  *)
(* variables are the state the run started from.                            *)

TopFiles(v) == Range(v.children)

NoteDate(name) == StrictParse(Basename(name), settings.dateFormat)

\* the date of the note is strictly before start-of-day(today) - (N - 1) days
DatedBefore(name) == Ord(NoteDate(name)) + (settings.minAgeDays - 1) < Ord(today)

HasMdExtension(name) == EndsWith(name, <<".", "m", "d">>)

Bucket(name) == <<settings.dailyNotesFolder, FormatMonthYear(NoteDate(name))>>

Dest(name) == <<settings.dailyNotesFolder, FormatMonthYear(NoteDate(name)), name>>

\* every character of the format that is a letter of a token stands for one
\* digit of the base name, every other character for itself
StrictlyMatches(base, fmt) ==
    /\ Len(base) = Len(fmt)
    /\ \A i \in 1..Len(fmt) :
         IF fmt[i] \in {"D", "M", "Y"} THEN IsDigit(base[i]) ELSE base[i] = fmt[i]

SucceededToday == \E r \in autoLog : r.outcome = "returned"

FailedToday == \E r \in autoLog : r.outcome = "threw"

NotFoundToday == \E r \in autoLog : r.outcome = "returned" /\ ~r.found

\* C1: a run, with a minimum age of at least 1, that meets a same-named file
\* at the destination of a qualifying file, and no host failure, returns
\* without error, and the file is then at the destination and no longer in
\* the folder.
C1_OverwriteReplaces ==
    [][(ev'.ran /\ ev'.found /\ ~ev'.injected /\ settings.minAgeDays >= 1) =>
         \A name \in TopFiles(vault) :
            (/\ HasMdExtension(name)
             /\ NoteDate(name).valid
             /\ DatedBefore(name)
             /\ Dest(name) \in FilePaths(vault))
            => (/\ ev'.outcome = "returned"
                /\ name \notin TopFiles(vault')
                /\ Dest(name) \in FilePaths(vault'))]_vars

\* C2: with minAgeDays = N >= 1, the notes a run moves are dated strictly
\* before today - (N - 1) days; the only folders it creates are the month
\* folders of such notes; a run that returns has moved every such note, and
\* a run that met no host failure has made the month folder of every such
\* note.  So a note dated at the threshold stays and a note dated the day
\* before is moved.
C2_StrictThreshold ==
    [][(ev'.ran /\ ev'.found /\ settings.minAgeDays >= 1) =>
         /\ \A name \in TopFiles(vault) :
              (HasMdExtension(name) /\ NoteDate(name).valid) =>
                 /\ name \notin TopFiles(vault') => DatedBefore(name)
                 /\ (ev'.outcome = "returned" /\ DatedBefore(name))
                      => (name \notin TopFiles(vault') /\ Dest(name) \in vault'.others)
                 /\ (~ev'.injected /\ DatedBefore(name)) => Bucket(name) \in vault'.folders
         /\ \A f \in vault'.folders \ vault.folders :
              \E name \in TopFiles(vault) :
                 /\ HasMdExtension(name)
                 /\ NoteDate(name).valid
                 /\ DatedBefore(name)
                 /\ f = Bucket(name)]_vars

\* a run on 2026-03-01 with minAgeDays = 1 has moved the note of 28-02 and
\* left the note of 01-03
C2_Witness ==
    /\ ev.ran /\ ev.outcome = "returned" /\ ev.count = 1
    /\ today = StartDay
    /\ settings.minAgeDays = 1
    /\ settings.dateFormat = FormatDMY
    /\ NoteMar01 \in TopFiles(vault)
    /\ NoteFeb28 \notin TopFiles(vault)
    /\ <<Agenda, FormatMonthYear([y |-> 2026, m |-> 2, d |-> 28]), NoteFeb28>> \in vault.others

\* the files of the folder whose base name parses and is dated before the
\* threshold, whatever their extension
DatedFiles == {name \in TopFiles(vault) : NoteDate(name).valid /\ DatedBefore(name)}

\* C3 as stated: after a run that returns, every file child whose base name
\* parses and is dated before the threshold, whatever its extension, is at
\* its destination, and the count is the number of such files.
C3_AnyExtensionMoved ==
    [][(ev'.ran /\ ev'.found /\ ev'.outcome = "returned") =>
         /\ \A name \in DatedFiles : Dest(name) \in FilePaths(vault')
         /\ ev'.count = Cardinality(DatedFiles)]_vars

\* C3 amended: after a run that returns, every file child whose name ends
\* with ".md", whose base name parses and which is dated before the
\* threshold is at its destination and no longer in the folder, and the
\* count is the number of such files.
C3_MarkdownMoved ==
    [][(ev'.ran /\ ev'.found /\ ev'.outcome = "returned") =>
         /\ \A name \in {n \in DatedFiles : HasMdExtension(n)} :
              /\ Dest(name) \in FilePaths(vault')
              /\ name \notin TopFiles(vault')
         /\ ev'.count = Cardinality({n \in DatedFiles : HasMdExtension(n)})]_vars

\* a run has moved a note while a dated .txt file stayed
C3_Witness ==
    /\ ev.ran /\ ev.outcome = "returned" /\ ev.count >= 1
    /\ settings.dateFormat = FormatDMY
    /\ NoteFeb28Txt \in TopFiles(vault)
    /\ <<Agenda, FormatMonthYear([y |-> 2026, m |-> 2, d |-> 28]), NoteFeb28>> \in vault.others

\* C4: once an automatic run has succeeded today, a later automatic run of
\* today calls no archiveNotes and leaves the vault as it is.
C4_OncePerDay ==
    [][(ev'.kind = "auto" /\ SucceededToday) => (~ev'.ran /\ vault' = vault)]_vars

\* an automatic run was skipped although a note was waiting
C4_Witness ==
    /\ ev.kind = "auto" /\ ~ev.ran
    /\ \E r \in autoLog : r.outcome = "returned" /\ r.found
    /\ settings.dailyNotesFolder = Agenda
    /\ settings.dateFormat = FormatDMY
    /\ settings.minAgeDays >= 1
    /\ NoteFeb28 \in TopFiles(vault)

\* C5: an automatic run that throws leaves the settings and the saved data
\* as they were; lastRunDate changes only in a run that returned, and then
\* to today; after a failure of today and no success of today, the next
\* automatic run calls archiveNotes again.
C5_FailureKeepsLastRun ==
    [][(ev'.kind = "auto") =>
         /\ (ev'.ran /\ ev'.outcome = "threw") => (settings' = settings /\ data' = data)
         /\ settings'.lastRunDate # settings.lastRunDate
              => (/\ ev'.ran /\ ev'.outcome = "returned"
                  /\ settings'.lastRunDate = FormatISO(today))
         /\ (FailedToday /\ ~SucceededToday) => ev'.ran]_vars

\* an automatic run succeeded on a day on which an earlier one had failed
C5_Witness ==
    /\ ev.kind = "auto" /\ ev.ran /\ ev.outcome = "returned"
    /\ FailedToday
    /\ settings.lastRunDate = FormatISO(today)

\* C6: of two runs in succession with a minimum age of at least 1, neither
\* met by a host failure, the second returns 0 and leaves the vault as the
\* first left it.
C6_SecondRunReturnsZero ==
    [][(ev.ran /\ ev'.ran /\ ~ev.injected /\ ~ev'.injected /\ settings.minAgeDays >= 1) =>
         (ev'.outcome = "returned" /\ ev'.count = 0 /\ vault' = vault)]_vars

\* C7: a run whose configured path is not a folder of the vault returns 0
\* and leaves the vault as it is.
C7_MissingFolderNoOp ==
    [][(ev'.ran /\ <<settings.dailyNotesFolder>> \notin vault.folders) =>
         (ev'.outcome = "returned" /\ ev'.count = 0 /\ vault' = vault)]_vars

\* a run has returned on a path that names a file
C7_Witness ==
    /\ ev.ran /\ ~ev.found /\ ev.outcome = "returned"
    /\ <<settings.dailyNotesFolder>> \in FilePaths(vault)

\* C8: a run leaves in place every file child that has no ".md" extension,
\* or whose base name does not strictly match the format or names no day,
\* or that is not dated before the threshold, and every file that is not a
\* direct child of the folder.
C8_OnlyCandidatesMove ==
    [][ev'.ran =>
         /\ \A name \in TopFiles(vault) :
              (\/ ~HasMdExtension(name)
               \/ ~StrictlyMatches(Basename(name), settings.dateFormat)
               \/ ~NoteDate(name).valid
               \/ ~DatedBefore(name))
              => name \in TopFiles(vault')
         /\ vault.others \subseteq vault'.others]_vars

\* a run has moved a note and left a note with an extra character
C8_Witness ==
    /\ ev.ran /\ ev.count >= 1
    /\ settings.dateFormat = FormatDMY
    /\ NoteFeb28Extra \in TopFiles(vault)
    /\ \E p \in vault.others : Len(p) = 3

C10_NotFoundCountsAsRun ==
    [][(ev'.kind = "auto") =>
         /\ (ev'.ran /\ <<settings.dailyNotesFolder>> \notin vault.folders)
              => (/\ ev'.outcome = "returned" /\ ev'.count = 0
                  /\ settings'.lastRunDate = FormatISO(today)
                  /\ data' = SavedData(settings'))
         /\ NotFoundToday => (~ev'.ran /\ vault' = vault)]_vars

\* an automatic run was skipped after one of today that found no folder,
\* although the folder is there now and holds a note to move
C10_Witness ==
    /\ ev.kind = "auto" /\ ~ev.ran
    /\ NotFoundToday
    /\ <<settings.dailyNotesFolder>> \in vault.folders
    /\ settings.dateFormat = FormatDMY
    /\ settings.minAgeDays >= 1
    /\ NoteFeb28 \in TopFiles(vault)

====
